---------------------------- MODULE Spec2Model ----------------------------
(***************************************************************************)
(* A model of dragondance-rs (src/src/lib.rs): the Module registry, the    *)
(* Trace entry log, Trace::add and the Pin Helper format writer.           *)
(*                                                                         *)
(* Numbers.  TLC's integers are 32 bits wide, the program's addresses are  *)
(* u64 and its offsets u32, so a u64 is held as four 16-bit limbs, most    *)
(* significant first (<<0, 0, 0, 4096>> is 0x1000), and a u32 as two.  A   *)
(* u16 and a usize that the model only counts with (a length, an index, a  *)
(* size argument) are plain naturals.                                      *)
(*                                                                         *)
(* Vec<Module>.  A registry is held run-length encoded: a sequence of runs *)
(* [m |-> module, n |-> k], each standing for k >= 1 consecutive copies of *)
(* m (Module is Copy), so that registries longer than u16::MAX can be      *)
(* explored.  ModulesLen, ModuleAt and Before give the vector's view.      *)
(*                                                                         *)
(* Text is a sequence of byte values (ASCII codes).                        *)
(*                                                                         *)
(* A definition marked "fault" is a seeded fault: the definition after it  *)
(* with one plausible slip.  The program's model never uses it; it shows   *)
(* which property notices the slip.                                        *)
(***************************************************************************)
EXTENDS Integers, Sequences, FiniteSets, TLC

VARIABLES
    endian,     \* byte order of the build target: what to_ne_bytes produces
    phase,      \* "setup": the caller builds its modules; "trace": Trace::new was called
    mods,       \* the caller's slice of constructed modules (run-length encoded)
    modules,    \* Trace.modules (run-length encoded)
    entries,    \* Trace.entries
    op,         \* the last call made: "none", "Module::new", "Trace::new",
                \* "module_containing", "add", "write"
    arg,        \* that call's arguments
    result,     \* that call's outcome: "Ok", "Panic" or "Err" ("none" before any call)
    ret,        \* the Module that call returned, as an Option (None when it returns none)
    out,        \* the bytes the sink of the last call accepted (<<>> unless op = "write")
    attempts,   \* the number of writes Trace::write made to that sink
    last        \* history: Some(bytes) of the latest earlier write that returned Ok with
                \* no other call since, None when there is none

vars == <<endian, phase, mods, modules, entries, op, arg, result, ret, out, attempts, last>>

---------------------------------------------------------------------------
(* Bounds of the exploration *)

\* the caller builds at most this many modules before Trace::new
MaxModules == 2
\* add is called successfully at most this many times
MaxEntries == 2

---------------------------------------------------------------------------
(* Fixed-width integers *)

U16_MAX == 65535
Limb == U16_MAX + 1

None == <<>>
Some(x) == <<x>>

\* a < b on u64 (four limbs, most significant first)
Lt(a, b) ==
    \/ a[1] < b[1]
    \/ a[1] = b[1] /\ a[2] < b[2]
    \/ a[1] = b[1] /\ a[2] = b[2] /\ a[3] < b[3]
    \/ a[1] = b[1] /\ a[2] = b[2] /\ a[3] = b[3] /\ a[4] < b[4]

Le(a, b) == ~Lt(b, a)

\* a - b on u64, wrapping modulo 2^64 (the callers subtract only when b <= a)
Sub(a, b) ==
    LET d4 == a[4] - b[4]
        c4 == IF d4 < 0 THEN 1 ELSE 0
        d3 == a[3] - b[3] - c4
        c3 == IF d3 < 0 THEN 1 ELSE 0
        d2 == a[2] - b[2] - c3
        c2 == IF d2 < 0 THEN 1 ELSE 0
        d1 == a[1] - b[1] - c2
    IN  <<d1 % Limb, d2 % Limb, d3 % Limb, d4 % Limb>>

\* u32::MAX as u64
U32_MAX == <<0, 0, U16_MAX, U16_MAX>>

\* u32::try_from(v: u64)
TryIntoU32(v) == IF v[1] = 0 /\ v[2] = 0 THEN Some(<<v[3], v[4]>>) ELSE None

\* u16::try_from(n: usize)
TryIntoU16(n) == IF n <= U16_MAX THEN Some(n) ELSE None

---------------------------------------------------------------------------
(* Module *)

Module(name, base, end) == [name |-> name, base |-> base, end |-> end]

\* fault: the first assert! written base <= end
ModuleNewLoose(name, base, end) ==
    IF ~Le(base, end) THEN None
    ELSE IF ~Le(Sub(end, base), U32_MAX) THEN None
    ELSE Some(Module(name, base, end))

\* Module::new: the module, or None when an assert! panics
ModuleNew(name, base, end) ==
    IF ~Lt(base, end) THEN None
    ELSE IF ~Le(Sub(end, base), U32_MAX) THEN None
    ELSE Some(Module(name, base, end))

\* Module::contains
Contains(m, pc) == Le(m.base, pc) /\ Lt(pc, m.end)

---------------------------------------------------------------------------
(* Vec<Module>, run-length encoded *)

Run(m, n) == [m |-> m, n |-> n]

RECURSIVE ModulesLen(_)
ModulesLen(ms) == IF ms = <<>> THEN 0 ELSE Head(ms).n + ModulesLen(Tail(ms))

\* the number of vector elements before run k
RECURSIVE Before(_, _)
Before(ms, k) == IF k <= 1 THEN 0 ELSE ms[k - 1].n + Before(ms, k - 1)

\* the run holding the vector's element i (1 <= i <= ModulesLen(ms))
RunOf(ms, i) == CHOOSE k \in 1..Len(ms) : Before(ms, k) < i /\ i <= Before(ms, k) + ms[k].n

\* modules[i - 1]
ModuleAt(ms, i) == ms[RunOf(ms, i)].m

\* modules.len() elements as a plain sequence (small registries only)
Expand(ms) == [i \in 1..ModulesLen(ms) |-> ModuleAt(ms, i)]

\* fault: the last match instead of the first
RECURSIVE FindLast(_, _, _)
FindLast(ms, pc, k) ==
    IF k > Len(ms) THEN 0
    ELSE LET later == FindLast(ms, pc, k + 1)
         IN  IF later # 0 THEN later
             ELSE IF Contains(ms[k].m, pc) THEN k ELSE 0

\* Iterator::find over the registry from run k on: the first run whose module
\* satisfies m.contains(pc), 0 when there is none
RECURSIVE Find(_, _, _)
Find(ms, pc, k) ==
    IF k > Len(ms) THEN 0
    ELSE IF Contains(ms[k].m, pc) THEN k
    ELSE Find(ms, pc, k + 1)

---------------------------------------------------------------------------
(* Trace *)

\* Trace::module_containing: Option<&Module>
ModuleContaining(ms, pc) ==
    LET k == Find(ms, pc, 1)
    IN  IF k = 0 THEN None ELSE Some(ms[k].m)

\* modules.iter().enumerate().find(|(_, m)| m.contains(pc)): Option<(id, module)>,
\* id counted from 0
EnumerateFind(ms, pc) ==
    LET k == Find(ms, pc, 1)
    IN  IF k = 0 THEN None ELSE Some(<<Before(ms, k), ms[k].m>>)

Entry(offset, size, module) == [offset |-> offset, size |-> size, module |-> module]

\* id as u16 + 1: the cast truncates; the addition overflows at u16::MAX, where a
\* build with overflow checks panics (None) and a build without them wraps to 0
ModuleIndex(id) ==
    LET t == id % Limb
    IN  IF t + 1 > U16_MAX THEN {None, Some(0)} ELSE {Some(t + 1)}

\* fault: the entry inserted at the front
PushFront(es, e) == <<e>> \o es

\* self.entries.push(entry)
Push(es, e) == Append(es, e)

\* fault: size cast with `as u16` instead of try_into().expect(..)
TraceAddTruncating(ms, es, pc, size) ==
    LET f == EnumerateFind(ms, pc)
    IN  IF f = None THEN {[result |-> "Panic", entries |-> es]}
        ELSE {[result |-> "Ok",
               entries |-> Push(es, Entry(TryIntoU32(Sub(pc, f[1][2].base))[1],
                                          size % Limb, f[1][1] + 1))]}

\* Trace::add: the possible outcomes, each the result and the entry log after it
TraceAdd(ms, es, pc, size) ==
    LET s == TryIntoU16(size)
        f == EnumerateFind(ms, pc)
    IN  IF s = None THEN {[result |-> "Panic", entries |-> es]}
        ELSE IF f = None THEN {[result |-> "Panic", entries |-> es]}
        ELSE LET id     == f[1][1]
                 module == f[1][2]
                 offset == TryIntoU32(Sub(pc, module.base))
             IN  IF offset = None THEN {[result |-> "Panic", entries |-> es]}
                 ELSE {IF ix = None
                          THEN [result |-> "Panic", entries |-> es]
                          ELSE [result |-> "Ok",
                                entries |-> Push(es, Entry(offset[1], s[1], ix[1]))]
                       : ix \in ModuleIndex(id)}

---------------------------------------------------------------------------
(* Formatting *)

\* "{}" of a usize: decimal digits
RECURSIVE Dec(_)
Dec(n) == IF n < 10 THEN <<48 + n>> ELSE Dec(n \div 10) \o <<48 + (n % 10)>>

\* the sixteen hexadecimal digits of a u64, most significant first
Nibbles(v) ==
    LET L(l) == <<l \div 4096, (l \div 256) % 16, (l \div 16) % 16, l % 16>>
    IN  L(v[1]) \o L(v[2]) \o L(v[3]) \o L(v[4])

\* without leading zeros, one digit at least
RECURSIVE StripZeros(_)
StripZeros(ds) == IF Len(ds) > 1 /\ Head(ds) = 0 THEN StripZeros(Tail(ds)) ELSE ds

HexDigit(d) == IF d < 10 THEN 48 + d ELSE 87 + d

\* "{:#x}" of a u64: "0x" and the lower-case digits
AltHex(v) ==
    LET ds == StripZeros(Nibbles(v))
    IN  <<48, 120>> \o [i \in 1..Len(ds) |-> HexDigit(ds[i])]

\* writeln!: the text and a line feed
Line(text) == text \o <<10>>

\* "DDPH-PINTOOL"
Magic == <<68, 68, 80, 72, 45, 80, 73, 78, 84, 79, 79, 76>>

\* "EntryCount: {}, ModuleCount: {}"
CountsLine(nEntries, nModules) ==
    <<69, 110, 116, 114, 121, 67, 111, 117, 110, 116, 58, 32>> \o Dec(nEntries)
    \o <<44, 32, 77, 111, 100, 117, 108, 101, 67, 111, 117, 110, 116, 58, 32>>
    \o Dec(nModules)

\* "MODULE_TABLE"
ModuleTable == <<77, 79, 68, 85, 76, 69, 95, 84, 65, 66, 76, 69>>

\* "{number}, {base:#x}, {end:#x}, {name}"
ModuleLine(number, m) ==
    Dec(number) \o <<44, 32>> \o AltHex(m.base) \o <<44, 32>> \o AltHex(m.end)
    \o <<44, 32>> \o m.name

\* "ENTRY_TABLE"
EntryTable == <<69, 78, 84, 82, 89, 95, 84, 65, 66, 76, 69>>

\* u16::to_ne_bytes and u32::to_ne_bytes on a target of byte order e
U16Bytes(n, e) ==
    IF e = "big" THEN <<n \div 256, n % 256>> ELSE <<n % 256, n \div 256>>

U32Bytes(v, e) ==
    IF e = "big" THEN U16Bytes(v[1], e) \o U16Bytes(v[2], e)
    ELSE U16Bytes(v[2], e) \o U16Bytes(v[1], e)

\* fault: the size and module fields in each other's place
EntryWriteSwapped(entry, e) ==
    U32Bytes(entry.offset, e) \o U16Bytes(entry.module, e) \o U16Bytes(entry.size, e)
    \o U32Bytes(<<0, 0>>, e)

\* Entry::write: the 12 bytes handed to write_all
EntryWrite(entry, e) ==
    U32Bytes(entry.offset, e) \o U16Bytes(entry.size, e) \o U16Bytes(entry.module, e)
    \o U32Bytes(<<0, 0>>, e)

---------------------------------------------------------------------------
(* Trace::write *)

\* fault: the module lines numbered from 0 (`number + 1` left out)
WriteCallsFromZero(ms, es, e) ==
    LET v == Expand(ms)
    IN  <<Line(Magic), Line(CountsLine(Len(es), Len(v))), Line(ModuleTable)>>
        \o [i \in 1..Len(v) |-> Line(ModuleLine(i - 1, v[i]))]
        \o <<Line(EntryTable)>>
        \o [i \in 1..Len(es) |-> EntryWrite(es[i], e)]

\* The buffers Trace::write hands to the sink, one per `?`-checked write, in order:
\* the header's two lines, the module table, the entry table.
WriteCalls(ms, es, e) ==
    LET v == Expand(ms)
    IN  <<Line(Magic), Line(CountsLine(Len(es), Len(v))), Line(ModuleTable)>>
        \o [i \in 1..Len(v) |-> Line(ModuleLine(i, v[i]))]
        \o <<Line(EntryTable)>>
        \o [i \in 1..Len(es) |-> EntryWrite(es[i], e)]

\* A sink: its write number failAt fails (0: none does) after taking `accept` bytes
\* of the buffer (fewer than the whole buffer: write_all returns Ok once all is taken).
Sink(failAt, accept) == [failAt |-> failAt, accept |-> accept]

Min(a, b) == IF a < b THEN a ELSE b

\* fault: a write's Err not returned at once (`?` left out); the writes go on
RECURSIVE EmitIgnoring(_, _, _, _)
EmitIgnoring(calls, i, sink, acc) ==
    IF i > Len(calls)
    THEN [result |-> IF sink.failAt \in 1..Len(calls) THEN "Err" ELSE "Ok",
          out |-> acc, attempts |-> Len(calls)]
    ELSE IF sink.failAt = i
    THEN EmitIgnoring(calls, i + 1, sink,
                      acc \o SubSeq(calls[i], 1, Min(sink.accept, Len(calls[i]) - 1)))
    ELSE EmitIgnoring(calls, i + 1, sink, acc \o calls[i])

\* The writes from number i on, each ended by `?`: the first Err returns at once.
RECURSIVE Emit(_, _, _, _)
Emit(calls, i, sink, acc) ==
    IF i > Len(calls)
    THEN [result |-> "Ok", out |-> acc, attempts |-> Len(calls)]
    ELSE IF sink.failAt = i
    THEN [result |-> "Err",
          out |-> acc \o SubSeq(calls[i], 1, Min(sink.accept, Len(calls[i]) - 1)),
          attempts |-> i]
    ELSE Emit(calls, i + 1, sink, acc \o calls[i])

\* Trace::write(&self, writer), given the buffers it is to write
TraceWrite(calls, sink) == Emit(calls, 1, sink, <<>>)

---------------------------------------------------------------------------
(* Inputs *)

NameAbcd == <<97, 98, 99, 100>>                \* "abcd"
NameLibc == <<108, 105, 98, 99, 46, 115, 111>> \* "libc.so"

U64(a, b, c, d) == <<a, b, c, d>>

\* the arguments the caller gives Module::new
ModuleInputs ==
    { <<NameAbcd, U64(0, 0, 0, 4096), U64(0, 0, 0, 8192)>>,   \* [0x1000, 0x2000)
      <<NameLibc, U64(0, 0, 0, 6144), U64(0, 1, 0, 6143)>>,   \* [0x1800, 0x1000017ff): size u32::MAX
      <<NameAbcd, U64(0, 0, 0, 4096), U64(0, 0, 0, 4096)>>,   \* base = end
      <<NameLibc, U64(0, 0, 0, 8192), U64(0, 0, 0, 4096)>>,   \* base > end
      <<NameLibc, U64(0, 0, 0, 6144), U64(0, 1, 0, 6144)>>,   \* size u32::MAX + 1
      <<NameAbcd, U64(0, 0, 0, 0), U64(U16_MAX, U16_MAX, U16_MAX, U16_MAX)>> }  \* size u64::MAX

\* the addresses the caller asks about
Pcs ==
    { U64(0, 0, 0, 4095),     \* 0xfff
      U64(0, 0, 0, 4096),     \* 0x1000
      U64(0, 0, 0, 6144),     \* 0x1800
      U64(0, 0, 0, 8192),     \* 0x2000
      U64(0, 1, 0, 6142),     \* 0x1000017fe
      U64(0, 1, 0, 6143) }    \* 0x1000017ff

\* the arguments the caller gives Trace::add
AddInputs ==
    { <<U64(0, 0, 0, 4095), 10>>,
      <<U64(0, 0, 0, 6144), U16_MAX>>,
      <<U64(0, 0, 0, 8192), 0>>,
      <<U64(0, 1, 0, 6142), 12>>,
      <<U64(0, 1, 0, 6143), 1>>,
      <<U64(0, 0, 0, 6144), U16_MAX + 1>>,
      <<U64(0, 0, 0, 4095), U16_MAX + 1>> }

\* how many bytes of its buffer a failing write may have taken (every buffer is
\* longer: the shortest, "ENTRY_TABLE\n" and a record, are 12 bytes)
Accepts == {5}

\* the sinks the caller may pass to a write of n buffers: one that never fails, one
\* that takes nothing at all, and those failing at one of the n writes with part of
\* its buffer taken
Sinks(n) == {Sink(0, 0), Sink(1, 0)} \cup {Sink(f, k) : f \in 1..n, k \in Accepts}

---------------------------------------------------------------------------
(* The program *)

Init ==
    /\ endian \in {"little", "big"}
    /\ phase = "setup"
    /\ mods = <<>>
    /\ modules = <<>>
    /\ entries = <<>>
    /\ op = "none"
    /\ arg = <<>>
    /\ result = "none"
    /\ ret = None
    /\ out = <<>>
    /\ attempts = 0
    /\ last = None

\* the caller calls Module::new(name, base, end) and keeps the module it returns
NewModule ==
    \E in \in ModuleInputs :
        /\ phase = "setup"
        /\ ModulesLen(mods) < MaxModules
        /\ LET r == ModuleNew(in[1], in[2], in[3])
           IN  /\ mods' = IF r = None THEN mods ELSE Append(mods, Run(r[1], 1))
               /\ result' = IF r = None THEN "Panic" ELSE "Ok"
               /\ ret' = r
        /\ op' = "Module::new"
        /\ arg' = in
        /\ out' = <<>>
        /\ attempts' = 0
        /\ last' = None
        /\ UNCHANGED <<endian, phase, modules, entries>>

\* Trace::new(&mods)
NewTrace ==
    /\ phase = "setup"
    /\ phase' = "trace"
    /\ modules' = mods
    /\ entries' = <<>>
    /\ op' = "Trace::new"
    /\ arg' = <<>>
    /\ result' = "Ok"
    /\ ret' = None
    /\ out' = <<>>
    /\ attempts' = 0
    /\ last' = None
    /\ UNCHANGED <<endian, mods>>

\* trace.module_containing(pc)
Query ==
    \E pc \in Pcs :
        /\ phase = "trace"
        /\ op' = "module_containing"
        /\ arg' = <<pc>>
        /\ result' = "Ok"
        /\ ret' = ModuleContaining(modules, pc)
        /\ out' = <<>>
        /\ attempts' = 0
        /\ last' = None
        /\ UNCHANGED <<endian, phase, mods, modules, entries>>

\* trace.add(pc, size)
Add ==
    \E in \in AddInputs :
        /\ phase = "trace"
        /\ Len(entries) < MaxEntries
        /\ \E o \in TraceAdd(modules, entries, in[1], in[2]) :
              /\ entries' = o.entries
              /\ result' = o.result
        /\ op' = "add"
        /\ arg' = in
        /\ ret' = None
        /\ out' = <<>>
        /\ attempts' = 0
        /\ last' = None
        /\ UNCHANGED <<endian, phase, mods, modules>>

\* fault: the write takes the entries out of the log
WriteDraining ==
    LET calls == WriteCalls(modules, entries, endian)
    IN
    \E sink \in Sinks(Len(calls)) :
        /\ phase = "trace"
        /\ LET r == TraceWrite(calls, sink)
           IN  /\ result' = r.result
               /\ out' = r.out
               /\ attempts' = r.attempts
        /\ op' = "write"
        /\ arg' = sink
        /\ ret' = None
        /\ last' = IF op = "write" /\ result = "Ok" THEN Some(out) ELSE
                   IF op = "write" THEN last ELSE None
        /\ entries' = <<>>
        /\ UNCHANGED <<endian, phase, mods, modules>>

\* trace.write(&mut sink)
Write ==
    LET calls == WriteCalls(modules, entries, endian)
    IN
    \E sink \in Sinks(Len(calls)) :
        /\ phase = "trace"
        /\ LET r == TraceWrite(calls, sink)
           IN  /\ result' = r.result
               /\ out' = r.out
               /\ attempts' = r.attempts
        /\ op' = "write"
        /\ arg' = sink
        /\ ret' = None
        /\ last' = IF op = "write" /\ result = "Ok" THEN Some(out) ELSE
                   IF op = "write" THEN last ELSE None
        /\ UNCHANGED <<endian, phase, mods, modules, entries>>

Next == NewModule \/ NewTrace \/ Query \/ Add \/ Write

Spec == Init /\ [][Next]_vars

---------------------------------------------------------------------------
(* Long registries.  The caller's slice repeats one module (vec![m; n]) up to and
   past u16::MAX elements and ends with another; the trace is explored from
   Trace::new on.  Trace::write of such a registry emits one line per module and is
   left out here. *)

\* the modules Module::new returns for ModuleInputs
Constructed ==
    { ModuleNew(in[1], in[2], in[3])[1] :
        in \in {i \in ModuleInputs : ModuleNew(i[1], i[2], i[3]) # None} }

LongRegistries ==
    { <<Run(a, n), Run(b, 1)>> :
        a \in Constructed, b \in Constructed, n \in {U16_MAX - 1, U16_MAX, U16_MAX + 1} }

InitLong ==
    /\ endian \in {"little", "big"}
    /\ phase = "trace"
    /\ mods \in LongRegistries
    /\ modules = mods
    /\ entries = <<>>
    /\ op = "Trace::new"
    /\ arg = <<>>
    /\ result = "Ok"
    /\ ret = None
    /\ out = <<>>
    /\ attempts = 0
    /\ last = None

NextLong == Query \/ Add

SpecLong == InitLong /\ [][NextLong]_vars

---------------------------------------------------------------------------
(* Vocabulary of the properties *)

IsPrefix(s, t) == Len(s) <= Len(t) /\ SubSeq(t, 1, Len(s)) = s

RECURSIVE Cat(_)
Cat(ss) == IF ss = <<>> THEN <<>> ELSE Head(ss) \o Cat(Tail(ss))

\* pc lies in m's half-open range [base, end)
InRange(m, pc) == Le(m.base, pc) /\ Lt(pc, m.end)

\* some registered module's range holds pc
SomeContains(ms, pc) == \E k \in 1..Len(ms) : InRange(ms[k].m, pc)

\* the registry's element i (counted from 1) is the first, in registration order,
\* whose range holds pc: no run that starts before i holds pc
IsFirstContaining(ms, pc, i) ==
    /\ i \in 1..ModulesLen(ms)
    /\ InRange(ModuleAt(ms, i), pc)
    /\ \A k \in 1..Len(ms) : Before(ms, k) + 1 < i => ~InRange(ms[k].m, pc)

\* the registry indices (counted from 1) at which a run starts: the first element
\* that holds a pc is always one of them, the elements of a run being equal
RunStarts(ms) == {Before(ms, k) + 1 : k \in 1..Len(ms)}

\* a u32 widened to u64
Widen(v) == <<0, 0, v[1], v[2]>>

\* u16::from_ne_bytes and u32::from_ne_bytes on a target of byte order e
DecodeU16(b, e) == IF e = "big" THEN b[1] * 256 + b[2] ELSE b[2] * 256 + b[1]

DecodeU32(b, e) ==
    IF e = "big" THEN <<DecodeU16(SubSeq(b, 1, 2), e), DecodeU16(SubSeq(b, 3, 4), e)>>
    ELSE <<DecodeU16(SubSeq(b, 3, 4), e), DecodeU16(SubSeq(b, 1, 2), e)>>

\* The text of two outputs, written out byte by byte:
\*   "DDPH-PINTOOL\nEntryCount: 2, ModuleCount: 1\nMODULE_TABLE\n"
\*   "1, 0x1000, 0x2000, abcd\nENTRY_TABLE\n"
ExampleText1 ==
    << 68, 68, 80, 72, 45, 80, 73, 78, 84, 79, 79, 76, 10, 69, 110, 116,
       114, 121, 67, 111, 117, 110, 116, 58, 32, 50, 44, 32, 77, 111, 100, 117,
       108, 101, 67, 111, 117, 110, 116, 58, 32, 49, 10, 77, 79, 68, 85, 76,
       69, 95, 84, 65, 66, 76, 69, 10, 49, 44, 32, 48, 120, 49, 48, 48,
       48, 44, 32, 48, 120, 50, 48, 48, 48, 44, 32, 97, 98, 99, 100, 10,
       69, 78, 84, 82, 89, 95, 84, 65, 66, 76, 69, 10 >>

\*   "DDPH-PINTOOL\nEntryCount: 0, ModuleCount: 2\nMODULE_TABLE\n"
\*   "1, 0x1800, 0x1000017ff, libc.so\n2, 0x1000, 0x2000, abcd\nENTRY_TABLE\n"
ExampleText2 ==
    << 68, 68, 80, 72, 45, 80, 73, 78, 84, 79, 79, 76, 10, 69, 110, 116,
       114, 121, 67, 111, 117, 110, 116, 58, 32, 48, 44, 32, 77, 111, 100, 117,
       108, 101, 67, 111, 117, 110, 116, 58, 32, 50, 10, 77, 79, 68, 85, 76,
       69, 95, 84, 65, 66, 76, 69, 10, 49, 44, 32, 48, 120, 49, 56, 48,
       48, 44, 32, 48, 120, 49, 48, 48, 48, 48, 49, 55, 102, 102, 44, 32,
       108, 105, 98, 99, 46, 115, 111, 10, 50, 44, 32, 48, 120, 49, 48, 48,
       48, 44, 32, 48, 120, 50, 48, 48, 48, 44, 32, 97, 98, 99, 100, 10,
       69, 78, 84, 82, 89, 95, 84, 65, 66, 76, 69, 10 >>

ExampleAbcd == Module(NameAbcd, U64(0, 0, 0, 4096), U64(0, 0, 0, 8192))
ExampleLibc == Module(NameLibc, U64(0, 0, 0, 6144), U64(0, 1, 0, 6143))

\* the entry the add of this step pushed
Pushed == entries'[Len(entries')]

---------------------------------------------------------------------------
(* Properties *)

\* C1: an add(pc, size) with pc inside some registered module's range and
\* size <= 0xFFFF succeeds and grows the entry log by exactly one entry, placed
\* last, whose module is the 1-based registry index of the first module (in
\* registration order) containing pc, whose size is the given size and whose offset
\* is pc - that module's base.
C1_AddAppendsResolvedEntry ==
    [][ (op' = "add" /\ arg'[2] <= U16_MAX /\ SomeContains(modules, arg'[1]))
        => /\ result' = "Ok"
           /\ Len(entries') = Len(entries) + 1
           /\ SubSeq(entries', 1, Len(entries)) = entries
           /\ IsFirstContaining(modules, arg'[1], Pushed.module)
           /\ Pushed.size = arg'[2]
           /\ Widen(Pushed.offset) = Sub(arg'[1], ModuleAt(modules, Pushed.module).base)
      ]_vars

\* C2: an add(pc, size) with pc outside every registered module's range, or with
\* size > 0xFFFF (whether or not pc resolves), panics and leaves the entry log as
\* it was.
C2_AddRejects ==
    [][ (op' = "add" /\ (arg'[2] > U16_MAX \/ ~SomeContains(modules, arg'[1])))
        => result' = "Panic" /\ entries' = entries
      ]_vars

\* C2 witness: an add with size > 0xFFFF and a pc that resolves has panicked on a
\* trace that already holds an entry.
C2_Witness ==
    /\ op = "add"
    /\ result = "Panic"
    /\ arg[2] > U16_MAX
    /\ SomeContains(modules, arg[1])
    /\ Len(entries) >= 1

\* C3: a write to a sink that never fails returns Ok and the sink holds exactly:
\* "DDPH-PINTOOL", "EntryCount: N, ModuleCount: M" for the current N entries and M
\* modules, "MODULE_TABLE", the M module lines in registration order numbered 1..M,
\* "ENTRY_TABLE" (each a line), and then N records of 12 bytes in append order.
\* For the registry [abcd] with two entries, and for [libc.so, abcd] with none, the
\* text is the one written out above.
C3_WriteLayout ==
    (op = "write" /\ arg.failAt = 0)
    => LET M == ModulesLen(modules)
           N == Len(entries)
           moduleLines == [i \in 1..M |-> Line(ModuleLine(i, ModuleAt(modules, i)))]
           records == [i \in 1..N |-> EntryWrite(entries[i], endian)]
           text == Line(Magic) \o Line(CountsLine(N, M)) \o Line(ModuleTable)
                   \o Cat(moduleLines) \o Line(EntryTable)
       IN  /\ result = "Ok"
           /\ \A i \in 1..N : Len(records[i]) = 12
           /\ Len(out) = Len(text) + 12 * N
           /\ out = text \o Cat(records)
           /\ (modules = <<Run(ExampleAbcd, 1)>> /\ N = 2)
              => SubSeq(out, 1, Len(ExampleText1)) = ExampleText1
           /\ (modules = <<Run(ExampleLibc, 1), Run(ExampleAbcd, 1)>> /\ N = 0)
              => out = ExampleText2

\* C3 witness: a write of two different modules and two entries has returned Ok.
C3_Witness ==
    /\ op = "write"
    /\ result = "Ok"
    /\ modules = <<Run(ExampleLibc, 1), Run(ExampleAbcd, 1)>>
    /\ Len(entries) = 2

C5_FirstMatch ==
    /\ op = "module_containing"
       => IF SomeContains(modules, arg[1])
          THEN /\ ret # None
               /\ \E i \in RunStarts(modules) :
                     /\ IsFirstContaining(modules, arg[1], i)
                     /\ ret[1] = ModuleAt(modules, i)
          ELSE ret = None
    /\ (op = "add" /\ result = "Ok")
       => \E i \in RunStarts(modules) :
             /\ IsFirstContaining(modules, arg[1], i)
             /\ ModuleContaining(modules, arg[1]) = Some(ModuleAt(modules, i))
             /\ Widen(entries[Len(entries)].offset)
                  = Sub(arg[1], ModuleAt(modules, i).base)
    /\ (op = "add" /\ arg[2] <= U16_MAX /\ ~SomeContains(modules, arg[1]))
       => result = "Panic"

\* C5 witness: module_containing has answered for a pc that two different
\* registered modules hold.
C5_Witness ==
    /\ op = "module_containing"
    /\ ret # None
    /\ \E i, j \in 1..ModulesLen(modules) :
          /\ i < j
          /\ ModuleAt(modules, i) # ModuleAt(modules, j)
          /\ InRange(ModuleAt(modules, i), arg[1])
          /\ InRange(ModuleAt(modules, j), arg[1])

\* C6: a write leaves the registry and the entry log unchanged, and a write that
\* returns Ok after an earlier write that returned Ok, with no add between them,
\* gives its sink the same bytes.
C6_WriteIdempotent ==
    [][ op' = "write"
        => /\ modules' = modules
           /\ entries' = entries
           /\ (result' = "Ok" /\ last' # None) => out' = last'[1]
      ]_vars

\* C6 witness: a second write of a trace holding an entry has returned Ok.
C6_Witness ==
    /\ op = "write"
    /\ result = "Ok"
    /\ last # None
    /\ Len(entries) >= 1

\* C7: when a write to the sink fails, Trace::write returns that failure, has made
\* no write after it, and the bytes the sink took are a proper prefix of what a
\* fully successful write produces: the earlier buffers whole and the part the
\* failing write took.
C7_WriteStopsAtFailure ==
    op = "write"
    => LET calls == WriteCalls(modules, entries, endian)
           f == arg.failAt
       IN  /\ result = "Err" <=> f \in 1..Len(calls)
           /\ result = "Ok" => attempts = Len(calls)
           /\ result = "Err"
              => /\ attempts = f
                 /\ IsPrefix(out, Cat(calls))
                 /\ Len(out) < Len(Cat(calls))
                 /\ out = Cat(SubSeq(calls, 1, f - 1)) \o SubSeq(calls[f], 1, arg.accept)

\* C7 witness: a write has failed at the first of two records, which the sink took
\* in part.
C7_Witness ==
    /\ op = "write"
    /\ result = "Err"
    /\ Len(entries) = 2
    /\ arg.failAt = 4 + ModulesLen(modules) + 1
    /\ arg.accept > 0
    /\ ModulesLen(modules) >= 1

\* C8: in the output of a successful write the k-th 12-byte record after
\* "ENTRY_TABLE\n" holds the k-th entry: bytes [0,4) its offset, [4,6) its size,
\* [6,8) its module index, in the target's byte order, and bytes [8,12) zero.
C8_RecordLayout ==
    (op = "write" /\ result = "Ok")
    => LET N == Len(entries)
           start == Len(out) - 12 * N
           rec(k) == SubSeq(out, start + 12 * (k - 1) + 1, start + 12 * k)
       IN  /\ start >= Len(Line(EntryTable))
           /\ SubSeq(out, start - Len(EntryTable), start) = Line(EntryTable)
           /\ \A k \in 1..N :
                 /\ \A i \in 1..12 : rec(k)[i] \in 0..255
                 /\ DecodeU32(SubSeq(rec(k), 1, 4), endian) = entries[k].offset
                 /\ DecodeU16(SubSeq(rec(k), 5, 6), endian) = entries[k].size
                 /\ DecodeU16(SubSeq(rec(k), 7, 8), endian) = entries[k].module
                 /\ SubSeq(rec(k), 9, 12) = <<0, 0, 0, 0>>

\* C8 witness: a successful write of two entries, one with an offset above 0xFFFF
\* and a size different from its module index.
C8_Witness ==
    /\ op = "write"
    /\ result = "Ok"
    /\ Len(entries) = 2
    /\ \E k \in 1..2 : entries[k].offset[1] > 0 /\ entries[k].size # entries[k].module

\* C9: every entry of the log has a module field m with 1 <= m <= the number of
\* registered modules, and an offset smaller than the size of the m-th registered
\* module.
C9_EntriesReferenceModules ==
    \A k \in 1..Len(entries) :
        LET m == entries[k].module
        IN  /\ m \in 1..ModulesLen(modules)
            /\ Lt(Widen(entries[k].offset),
                  Sub(ModuleAt(modules, m).end, ModuleAt(modules, m).base))

\* C10: once the trace exists its registry is the list given to Trace::new and
\* never changes, every step leaves the old entry log as a prefix of the new one,
\* and the log grows, by exactly one entry, exactly in the adds that return Ok.
C10_AppendOnly ==
    [][ /\ phase' = "trace" => modules' = mods'
        /\ phase = "trace" => modules' = modules
        /\ IsPrefix(entries, entries')
        /\ Len(entries') = Len(entries)
                           + (IF op' = "add" /\ result' = "Ok" THEN 1 ELSE 0)
      ]_vars

\* C10 witness: two different entries were added and the trace was written twice.
C10_Witness ==
    /\ op = "write"
    /\ last # None
    /\ Len(entries) = 2
    /\ entries[1] # entries[2]

=============================================================================
